---- MODULE Spec2Model ----
(***************************************************************************)
(* Model of the EuroPi contrib engines:                                    *)
(*   software/contrib/lfsr.py               LFSR, int_to_rule, rule_lfsr   *)
(*   software/contrib/cellular_automata.py  ElementaryCellularAutomata,    *)
(*                                          get_rule_set, choose,          *)
(*                                          combination,                   *)
(*                                          EuroPiCellularAutomata         *)
(*   software/contrib/chaos_pendulum.py     ChaosPendulum,                 *)
(*                                          EuroPiChaosPendulum            *)
(* Each engine has its own group of variables and its own specification;   *)
(* a specification keeps the other groups at their idle values.            *)
(***************************************************************************)
EXTENDS Integers, Sequences, FiniteSets, TLC

VARIABLES
    \* ---- LFSR (lfsr.py) ----
    n_bits,         \* LFSR._n_bits
    lfsr_state,     \* LFSR._state
    init_state,     \* LFSR._init_state
    lfsr_rule,      \* LFSR._rule : list of tap positions
    lfsr_op,        \* the last LFSR method that ran
    lfsr_arg,       \* the argument of the last set_rule call (0 otherwise)
    lfsr_err,       \* TRUE iff the last method raised ValueError
    last_set,       \* history: value passed to the most recent set_state
    ctor_state,     \* history: value passed to __init__
    upd_since_set,  \* history: update_state ran since the last set_state
    \* ---- rule_lfsr generator next to an LFSR (lfsr.py) ----
    gen_pc,         \* "created" | "yielded" | "raised"
    gen_lfsr,       \* the generator's local lfsr
    gen_seq,        \* history: values the generator yielded
    upd_seq,        \* history: LFSR._state at construction and after each update_state
    \* ---- ElementaryCellularAutomata (cellular_automata.py) ----
    length,         \* self.length
    rule,           \* self.rule
    rule_set,       \* self.rule_set
    state,          \* self.state : list of "0"/"1"
    ca_op,          \* the last automaton method that ran
    ca_arg,         \* the argument of the last set_state call (0 otherwise)
    \* ---- combination(n, k, m) (cellular_automata.py) ----
    c_n, c_k, c_m,  \* the arguments
    c_a, c_b, c_x,  \* the locals a, b, x
    c_i,            \* iterations of the for loop completed
    c_result,       \* the local result
    c_pc,           \* "for" | "while" | "done"
    \* ---- choose(n, k) (cellular_automata.py) ----
    ch_n, ch_k,     \* the arguments
    ch_res,         \* the value returned
    ch_pc,          \* "call" | "done"
    \* ---- EuroPiLFSR (lfsr.py) ----
    n_steps,        \* self._n_steps
    \* ---- EuroPiCellularAutomata (cellular_automata.py) ----
    outputs,        \* self.outputs
    saved_state,    \* self.saved_state
    cvs,            \* cvs[0..5]: TRUE iff the output is high
    gate,           \* level of the digital input din: "low" | "high"
    host_op,        \* the last handler or main-loop pass that ran
    pre_state,      \* history: self._ca.state as the last gate_on passed it to update_state
    n_rising,       \* history: gate_on handlers run
    n_updates,      \* history: update_state calls made by the host
    \* ---- ChaosPendulum (chaos_pendulum.py), numbers as exact fractions ----
    pend_state,     \* self.state : [theta_1, omega_1, theta_2, omega_2]
    pend_op,        \* the last pendulum method that ran
    pend_steps,     \* history: update_state calls since the last set_state
    \* ---- EuroPiChaosPendulum (chaos_pendulum.py), states as terms ----
    hp_state,       \* self._pendulum.state
    hp_saved,       \* self.saved_state
    main_pc,        \* main loop: "main" | "in_update" (between lines 96 and 105)
    main_y,         \* update_state's local y while main_pc = "in_update"
    hp_draws,       \* history: randomize_state calls so far
    hp_op,          \* the last handler or main-loop step that ran
    reset_fresh     \* history: a reset handler ran and no update_state began since

lfsr_vars == <<n_bits, lfsr_state, init_state, lfsr_rule, lfsr_op, lfsr_arg,
               lfsr_err, last_set, ctor_state, upd_since_set>>
gen_vars  == <<gen_pc, gen_lfsr, gen_seq, upd_seq>>
ca_vars   == <<length, rule, rule_set, state, ca_op, ca_arg>>
comb_vars == <<c_n, c_k, c_m, c_a, c_b, c_x, c_i, c_result, c_pc>>
ch_vars   == <<ch_n, ch_k, ch_res, ch_pc>>
lhost_vars == <<n_steps>>
chost_vars == <<outputs, saved_state, cvs, gate, host_op, pre_state, n_rising,
                n_updates>>
pend_vars  == <<pend_state, pend_op, pend_steps>>
phost_vars == <<hp_state, hp_saved, main_pc, main_y, hp_draws, hp_op,
                reset_fresh>>
ext_vars   == <<lhost_vars, chost_vars, pend_vars, phost_vars>>
vars      == <<lfsr_vars, gen_vars, ca_vars, comb_vars, ch_vars, ext_vars>>

(***************************************************************************)
(* Bounds of the model.                                                    *)
(***************************************************************************)
MaxNBits == 3       \* LFSRs of 2..MaxNBits bits
MaxLength == 5      \* automata of 3..MaxLength cells
MaxCombN == 5       \* combination(n, k, m) for n <= MaxCombN
MaxChooseN == 7     \* choose(n, k) for n, k <= MaxChooseN
MaxSteps == 3       \* generator values / LFSR updates recorded
MaxOut == 2         \* out-of-range m: up to MaxOut below 0 or past choose(n, k) - 1
MaxNegA == 3        \* the while loop of combination is followed down to a = -MaxNegA
MaxRising == 2      \* rising gate edges followed in SpecCaHost
MaxDraws == 2       \* randomize_state calls of the pendulum host after construction
MaxEuler == 4       \* update_state steps followed from one pendulum state
MaxPendSteps == 1000  \* update_state calls of the pendulum followed after a set_state
MaxPeriodSteps == 260  \* update_state calls followed in SpecPeriod

(***************************************************************************)
(* Program constants.                                                      *)
(***************************************************************************)
STATE_SIZE == 16    \* cellular_automata.py: STATE_SIZE
IntToRuleBits == 8  \* lfsr.py int_to_rule: range(8)
RuleSetSize == 8    \* cellular_automata.py get_rule_set: (8 - n_symbols)
NumRules == 256     \* main: k1.read_position(steps=256)
MinNBits == 2       \* smallest register with a tap position in 1..n_bits-1
NumOutputs == 6     \* cellular_automata.py gate_on: combination(STATE_SIZE, 6, 8*k)
KnobSteps == 100    \* cellular_automata.py gate_on: k2.read_position(steps=100)
KnobScale == 8      \* cellular_automata.py gate_on: 8*k
DefaultRule == 110      \* LFSR.__init__ and ElementaryCellularAutomata.__init__: 110
DefaultLfsrState == 1   \* lfsr.py LFSR.__init__: state=1
DefaultNSteps == 256    \* lfsr.py EuroPiLFSR.__init__: self._n_steps = 256
N_BITS == 8         \* lfsr.py: N_BITS
MinLength == 3      \* smallest ring in which a cell has two distinct neighbours

(***************************************************************************)
(* Python integer and string primitives.                                   *)
(***************************************************************************)
Pow2(e) == 2 ^ e

\* a >> b
Shr(a, b) == a \div Pow2(b)

\* a << b
Shl(a, b) == a * Pow2(b)

\* a ^ b on non-negative integers, bit by bit
RECURSIVE BitXor(_, _)
BitXor(a, b) ==
    IF a = 0 /\ b = 0 THEN 0
    ELSE (((a % 2) + (b % 2)) % 2) + (2 * BitXor(a \div 2, b \div 2))

\* a | b on non-negative integers, bit by bit
RECURSIVE BitOr(_, _)
BitOr(a, b) ==
    IF a = 0 /\ b = 0 THEN 0
    ELSE (IF (a % 2) = 1 \/ (b % 2) = 1 THEN 1 ELSE 0) + (2 * BitOr(a \div 2, b \div 2))

\* a & b on non-negative integers, bit by bit
RECURSIVE BitAnd(_, _)
BitAnd(a, b) ==
    IF a = 0 \/ b = 0 THEN 0
    ELSE (IF (a % 2) = 1 /\ (b % 2) = 1 THEN 1 ELSE 0) + (2 * BitAnd(a \div 2, b \div 2))

\* bin(v)[2:] : the binary digits of v >= 0, most significant first, "0" for 0
Digit(d) == IF d = 1 THEN "1" ELSE "0"

RECURSIVE Bin(_)
Bin(v) ==
    IF v < 2 THEN << Digit(v) >>
    ELSE Append(Bin(v \div 2), Digit(v % 2))

\* count * "0" : the empty string when count <= 0
Zeros(count) == [j \in 1..count |-> "0"]

\* seq[j] with Python's indexing: 0-based, negative j counts from the end
PyIdx(seq, j) == IF j < 0 THEN seq[Len(seq) + j + 1] ELSE seq[j + 1]

(***************************************************************************)
(* lfsr.py                                                                 *)
(***************************************************************************)

\* int_to_rule, the loop body for i, i+1, ..., 7
RECURSIVE int_to_rule_loop(_, _, _)
int_to_rule_loop(i, k, r) ==
    IF i >= IntToRuleBits THEN r
    ELSE int_to_rule_loop(i + 1, Shr(k, 1),
                          IF BitAnd(k, 1) = 1 THEN Append(r, i + 1) ELSE r)

int_to_rule(k) == int_to_rule_loop(0, k, <<>>)

\* the feedback loop shared by LFSR.update_state and rule_lfsr:
\*   bit = lfsr; for b in rule: bit ^= (lfsr >> b)
RECURSIVE feedback_loop(_, _, _, _)
feedback_loop(j, bit, s, r) ==
    IF j > Len(r) THEN bit
    ELSE feedback_loop(j + 1, BitXor(bit, Shr(s, r[j])), s, r)

\* LFSR.update_state: the new _state (mutant: feedback inserted at bit n_bits)
lfsr_next_mut(s, r, n) ==
    LET bit == BitAnd(feedback_loop(1, s, s, r), 1)
    IN  BitOr(Shr(s, 1), Shl(bit, n))

\* LFSR.update_state: the new _state (mutant: the fold starts from 0, not
\* from the state, so bit 0 is left out of the feedback)
lfsr_next_no_bit0(s, r, n) ==
    LET bit == BitAnd(feedback_loop(1, 0, s, r), 1)
    IN  BitOr(Shr(s, 1), Shl(bit, n - 1))

lfsr_next(s, r, n) ==
    LET bit == BitAnd(feedback_loop(1, s, s, r), 1)
    IN  BitOr(Shr(s, 1), Shl(bit, n - 1))

\* LFSR.get_state_bits: '{:0>{w}}'.format(bin(state)[2:], w=n_bits)
get_state_bits(s, n) == Zeros(n - Len(Bin(s))) \o Bin(s)

\* LFSR.set_rule, the guard that raises ValueError
set_rule_raises(rule_number, n) ==
    rule_number < 1 \/ rule_number > Pow2(n - 1)

\* arguments tried for set_rule: the accepted domain and one value on each side
RuleNumbers(n) == 0 .. (Pow2(n - 1) + 1)

\* register values that fit in n bits
Fitting(n) == 0 .. (Pow2(n) - 1)

LfsrIdle ==
    /\ n_bits = 0 /\ lfsr_state = 0 /\ init_state = 0 /\ lfsr_rule = <<>>
    /\ lfsr_op = "idle" /\ lfsr_arg = 0 /\ lfsr_err = FALSE
    /\ last_set = 0 /\ ctor_state = 0 /\ upd_since_set = FALSE

GenIdle == gen_pc = "idle" /\ gen_lfsr = 0 /\ gen_seq = <<>> /\ upd_seq = <<>>

\* LFSR.__init__(state, rule_number, n_bits) returning without error
lfsr_init(s, rule_number, n) ==
    /\ ~set_rule_raises(rule_number, n)
    /\ lfsr_state = s
    /\ n_bits = n
    /\ init_state = s
    /\ lfsr_rule = int_to_rule(rule_number)
    /\ lfsr_op = "init" /\ lfsr_arg = 0 /\ lfsr_err = FALSE
    /\ last_set = s /\ ctor_state = s /\ upd_since_set = FALSE

\* LFSR.set_state (mutant: _init_state is not updated)
set_state_fields_mut(v) ==
    /\ lfsr_state' = v
    /\ init_state' = init_state

\* LFSR.set_state: the two assignments
set_state_fields(v) ==
    /\ lfsr_state' = v
    /\ init_state' = v

lfsr_set_state(v) ==
    /\ set_state_fields(v)
    /\ last_set' = v /\ upd_since_set' = FALSE
    /\ lfsr_op' = "set_state" /\ lfsr_arg' = 0 /\ lfsr_err' = FALSE
    /\ UNCHANGED <<n_bits, lfsr_rule, ctor_state>>

\* LFSR.randomize_state: set_state(randint(1, 2**n_bits)), randint inclusive
lfsr_randomize_state ==
    \E v \in 1 .. Pow2(n_bits) :
        /\ set_state_fields(v)
        /\ last_set' = v /\ upd_since_set' = FALSE
        /\ lfsr_op' = "randomize_state" /\ lfsr_arg' = 0 /\ lfsr_err' = FALSE
        /\ UNCHANGED <<n_bits, lfsr_rule, ctor_state>>

\* LFSR.reset_state
lfsr_reset_state ==
    /\ lfsr_state' = init_state
    /\ lfsr_op' = "reset_state" /\ lfsr_arg' = 0 /\ lfsr_err' = FALSE
    /\ UNCHANGED <<n_bits, init_state, lfsr_rule, last_set, ctor_state,
                   upd_since_set>>

\* LFSR.set_rule (mutant: _rule is assigned before the range check)
lfsr_set_rule_mut(rule_number) ==
    /\ lfsr_rule' = int_to_rule(rule_number)
    /\ lfsr_err' = set_rule_raises(rule_number, n_bits)
    /\ lfsr_op' = "set_rule" /\ lfsr_arg' = rule_number
    /\ UNCHANGED <<n_bits, lfsr_state, init_state, last_set, ctor_state,
                   upd_since_set>>

\* LFSR.set_rule
lfsr_set_rule(rule_number) ==
    /\ IF set_rule_raises(rule_number, n_bits)
       THEN lfsr_err' = TRUE /\ lfsr_rule' = lfsr_rule
       ELSE lfsr_err' = FALSE /\ lfsr_rule' = int_to_rule(rule_number)
    /\ lfsr_op' = "set_rule" /\ lfsr_arg' = rule_number
    /\ UNCHANGED <<n_bits, lfsr_state, init_state, last_set, ctor_state,
                   upd_since_set>>

\* LFSR.update_state
lfsr_update_state ==
    /\ lfsr_state' = lfsr_next(lfsr_state, lfsr_rule, n_bits)
    /\ upd_since_set' = TRUE
    /\ lfsr_op' = "update_state" /\ lfsr_arg' = 0 /\ lfsr_err' = FALSE
    /\ UNCHANGED <<n_bits, init_state, lfsr_rule, last_set, ctor_state>>

\* EuroPiLFSR.main, line 156: the steps argument of k1.read_position (mutant:
\* one more knob position, so that rule_number + 1 reaches 2**(n_bits - 1))
main_rule_steps_mut(n) == Pow2(n - 1)

\* EuroPiLFSR.main, line 156: the steps argument of k1.read_position
main_rule_steps(n) == Pow2(n - 1) - 1

\* EuroPiLFSR.__init__: LFSR(n_bits=N_BITS) with the default state and rule
\* number of LFSR.__init__, and self._n_steps = 256
lfsr_host_init ==
    /\ lfsr_init(DefaultLfsrState, DefaultRule, N_BITS)
    /\ n_steps = DefaultNSteps

\* EuroPiLFSR.main, lines 155-158: one pass of the while loop; a ValueError
\* from set_rule leaves the loop before line 158
lfsr_host_main(k1_pos, k2_pos) ==
    /\ lfsr_set_rule(k1_pos + 1)
    /\ n_steps' = IF lfsr_err' THEN n_steps ELSE Pow2(k2_pos + 1)

\* rule_lfsr, line 24: the tap check that raises ValueError
rule_lfsr_raises(r, n) ==
    \E j \in 1 .. Len(r) : r[j] < 1 \/ r[j] > n - 1

\* rule_lfsr, lines 30-32: bit = lfsr; for b in rule: bit ^= (lfsr >> b)
RECURSIVE rule_lfsr_loop(_, _, _, _)
rule_lfsr_loop(j, bit, lfsr, r) ==
    IF j > Len(r) THEN bit
    ELSE rule_lfsr_loop(j + 1, BitXor(bit, Shr(lfsr, r[j])), lfsr, r)

\* rule_lfsr, lines 30-34: the value of lfsr at the next yield
rule_lfsr_next(lfsr, r, n) ==
    LET bit == BitAnd(rule_lfsr_loop(1, lfsr, lfsr, r), 1)
    IN  BitOr(Shr(lfsr, 1), Shl(bit, n - 1))

\* g = rule_lfsr(start_state, rule, n_bits): nothing of the body has run yet
gen_create == gen_pc = "created" /\ gen_lfsr = 0 /\ gen_seq = <<>>

\* the first next(g): the tap check, lfsr = start_state, the first yield
gen_first(start_state, r, n) ==
    /\ gen_pc = "created"
    /\ IF rule_lfsr_raises(r, n)
       THEN gen_pc' = "raised" /\ UNCHANGED <<gen_lfsr, gen_seq>>
       ELSE /\ gen_pc' = "yielded"
            /\ gen_lfsr' = start_state
            /\ gen_seq' = Append(gen_seq, start_state)

\* a later next(g): one turn of the while loop up to the yield
gen_next(r, n) ==
    /\ gen_pc = "yielded"
    /\ gen_lfsr' = rule_lfsr_next(gen_lfsr, r, n)
    /\ gen_seq' = Append(gen_seq, gen_lfsr')
    /\ UNCHANGED gen_pc

(***************************************************************************)
(* cellular_automata.py                                                    *)
(***************************************************************************)

\* get_rule_set (mutant: the padded digits are not reversed)
get_rule_set_mut(r) ==
    LET rule_bin  == Bin(r)
        n_symbols == Len(rule_bin)
        padded    == Zeros(RuleSetSize - n_symbols) \o rule_bin
    IN  [j \in 1 .. RuleSetSize |-> PyIdx(padded, j - 1)]

\* get_rule_set: rule_set[j] (1-based) is rule_bin[i] for i = 7, 6, ..., 0
get_rule_set(r) ==
    LET rule_bin  == Bin(r)
        n_symbols == Len(rule_bin)
        padded    == Zeros(RuleSetSize - n_symbols) \o rule_bin
    IN  [j \in 1 .. RuleSetSize |-> PyIdx(padded, RuleSetSize - j)]

\* int(s, 2) for a string s of three binary digits
Int2(s) ==
    (4 * (IF s[1] = "1" THEN 1 ELSE 0)) + (2 * (IF s[2] = "1" THEN 1 ELSE 0))
    + (IF s[3] = "1" THEN 1 ELSE 0)

\* ElementaryCellularAutomata._apply_rule (mutant: the table is read one
\* entry further on, wrapping at the end)
ca_apply_rule_mut(rs, n) == rs[((n + 1) % Len(rs)) + 1]

\* ElementaryCellularAutomata._apply_rule: self.rule_set[n]
ca_apply_rule(rs, n) == rs[n + 1]

\* ElementaryCellularAutomata.update_state, the for loop from iteration i on.
\* self_state is what self.state refers to and new_state the list new_state;
\* the loop body ends with self.state = new_state, so from the second
\* iteration on both names refer to the list being written.
RECURSIVE update_state_loop(_, _, _, _, _)
update_state_loop(i, self_state, new_state, len, rs) ==
    IF i >= len THEN self_state
    ELSE LET s  == << PyIdx(self_state, i - 1), PyIdx(self_state, i),
                      PyIdx(self_state, (i + 1) % len) >>
             n  == Int2(s)
             ns == [new_state EXCEPT ![i + 1] = ca_apply_rule(rs, n)]
         IN  update_state_loop(i + 1, ns, ns, len, rs)

\* all states randomize_state can produce: choice("01") for each cell
BinaryStates(len) == [1 .. len -> {"0", "1"}]

\* rule numbers tried in SpecCA: the constant rules, the default rule 110 and
\* three rules with asymmetric tables
RuleInputs == {0, 30, 110, 184, 225, 255}

\* every rule number the host can select: k1.read_position(steps=256)
AllRules == 0 .. (NumRules - 1)

\* arguments tried for set_state: small values, and the values around 2^STATE_SIZE
SetStateValues == {0, 1, 5, (2 ^ STATE_SIZE) - 1, 2 ^ STATE_SIZE}

\* ElementaryCellularAutomata.__init__(length, rule, randomize)
ca_init(len, r, randomize) ==
    /\ length = len
    /\ rule = r
    /\ rule_set = get_rule_set(r)
    /\ IF randomize THEN state \in BinaryStates(len) ELSE state = Zeros(len)
    /\ ca_op = "init" /\ ca_arg = 0

\* ElementaryCellularAutomata.set_state
ca_set_state(v) ==
    /\ state' = Zeros(STATE_SIZE - Len(Bin(v))) \o Bin(v)
    /\ ca_op' = "set_state" /\ ca_arg' = v
    /\ UNCHANGED <<length, rule, rule_set>>

\* ElementaryCellularAutomata.randomize_state
ca_randomize_state ==
    /\ state' \in BinaryStates(length)
    /\ ca_op' = "randomize_state" /\ ca_arg' = 0
    /\ UNCHANGED <<length, rule, rule_set>>

\* ElementaryCellularAutomata.reset_state
ca_reset_state ==
    /\ state' = Zeros(length)
    /\ ca_op' = "reset_state" /\ ca_arg' = 0
    /\ UNCHANGED <<length, rule, rule_set>>

\* ElementaryCellularAutomata.update_ruleset
ca_update_ruleset(r) ==
    /\ rule' = r
    /\ rule_set' = get_rule_set(r)
    /\ ca_op' = "update_ruleset" /\ ca_arg' = 0
    /\ UNCHANGED <<length, state>>

\* ElementaryCellularAutomata.update_state
ca_update_state ==
    /\ state' = update_state_loop(0, state, state, length, rule_set)
    /\ ca_op' = "update_state" /\ ca_arg' = 0
    /\ UNCHANGED <<length, rule, rule_set>>

\* math.factorial
RECURSIVE Factorial(_)
Factorial(v) == IF v <= 0 THEN 1 ELSE v * Factorial(v - 1)

\* factorial(n) / (factorial(k) * factorial(n - k)) for 0 <= k <= n, with the
\* common factors cancelled as the product is built: Python divides
\* unbounded integers, and factorial(16) does not fit TLC's integers.  After
\* turn i the value is the integer (n-k+1)...(n-k+i) / i!.
RECURSIVE FactorialQuotientTo(_, _, _)
FactorialQuotientTo(n, k, i) ==
    IF i <= 0 THEN 1
    ELSE (FactorialQuotientTo(n, k, i - 1) * (n - k + i)) \div i

FactorialQuotient(n, k) == FactorialQuotientTo(n, k, k)

\* choose (mutant: the guard is n <= k)
choose_mut(n, k) ==
    IF n <= k THEN 0
    ELSE FactorialQuotient(n, k)

\* choose: the quotient of the true division is a float with an integral
\* value, exact while factorial(n) < 2^53, which holds for every n here
choose(n, k) ==
    IF n < k THEN 0
    ELSE FactorialQuotient(n, k)

\* combination, line 62: the index appended (mutant: n - a)
comb_index_mut(n, a) == n - a

\* combination, line 62: the index appended
comb_index(n, a) == n - 1 - a

\* combination, lines 60-61: the value of a at which the while loop is left
RECURSIVE comb_while_exit(_, _, _)
comb_while_exit(a, b, x) ==
    IF choose(a, b) > x THEN comb_while_exit(a - 1, b, x) ELSE a

\* combination, lines 58-64: the for loop from its turn i on
RECURSIVE comb_for_loop(_, _, _, _, _, _, _)
comb_for_loop(i, n, k, a, b, x, result) ==
    IF i >= k THEN result
    ELSE LET a1 == comb_while_exit(a - 1, b, x)
         IN  comb_for_loop(i + 1, n, k, a1, b - 1, x - choose(a1, b),
                           Append(result, comb_index(n, a1)))

\* combination(n, k, m) as one call, for m within the precondition
combination(n, k, m) ==
    comb_for_loop(0, n, k, n, k, (choose(n, k) - 1) - m, <<>>)

\* europi Knob.read_position(steps): a position in 0 .. steps-1
KnobPositions(steps) == 0 .. (steps - 1)

\* gate_on, line 137: the index m passed to combination (mutant: the knob is
\* spread over 0 .. 99*81, past choose(16, 6) - 1)
gate_on_m_mut(k) == 81 * k

\* gate_on, line 137: the index m passed to combination
gate_on_m(k) == KnobScale * k

\* combination, lines 54-57: the locals on entry to the for loop
comb_entry(n, k, m) ==
    /\ c_n = n /\ c_k = k /\ c_m = m
    /\ c_result = <<>>
    /\ c_a = n
    /\ c_b = k
    /\ c_x = (choose(n, k) - 1) - m
    /\ c_i = 0
    /\ c_pc = "for"

\* combination, lines 58-59: the for loop takes its next turn, a = a - 1
comb_for ==
    /\ c_pc = "for" /\ c_i < c_k
    /\ c_a' = c_a - 1
    /\ c_pc' = "while"
    /\ UNCHANGED <<c_n, c_k, c_m, c_b, c_x, c_i, c_result>>

\* combination, lines 60-61: one turn of the while loop
comb_while ==
    /\ c_pc = "while" /\ choose(c_a, c_b) > c_x
    /\ c_a' = c_a - 1
    /\ UNCHANGED <<c_n, c_k, c_m, c_b, c_x, c_i, c_result, c_pc>>

\* combination, lines 62-64: the while loop is left, the index is appended
comb_append ==
    /\ c_pc = "while" /\ ~(choose(c_a, c_b) > c_x)
    /\ c_result' = Append(c_result, comb_index(c_n, c_a))
    /\ c_x' = c_x - choose(c_a, c_b)
    /\ c_b' = c_b - 1
    /\ c_i' = c_i + 1
    /\ c_pc' = "for"
    /\ UNCHANGED <<c_n, c_k, c_m, c_a>>

\* combination, line 65: the for loop is exhausted, return result
comb_return ==
    /\ c_pc = "for" /\ c_i >= c_k
    /\ c_pc' = "done"
    /\ UNCHANGED <<c_n, c_k, c_m, c_a, c_b, c_x, c_i, c_result>>

\* a call choose(n, k) and its return
choose_entry(n, k) == ch_n = n /\ ch_k = k /\ ch_res = 0 /\ ch_pc = "call"

choose_call ==
    /\ ch_pc = "call"
    /\ ch_res' = choose(ch_n, ch_k)
    /\ ch_pc' = "done"
    /\ UNCHANGED <<ch_n, ch_k>>

(***************************************************************************)
(* cellular_automata.py: EuroPiCellularAutomata                            *)
(***************************************************************************)

\* the cells of a 16-cell state written as a number, as set_state builds them
Cells16(v) == Zeros(STATE_SIZE - Len(Bin(v))) \o Bin(v)

\* states tried for randomize_state in the host: four of the 2^16 lists
\* [choice("01") for _ in range(16)]
RandomDraws == {Cells16(v) : v \in {1, 4660, 43690, 65535}}

\* knob positions tried for k1 in main: the default rule and two others of
\* the 256
HostRuleInputs == {30, 110, 184}

\* knob positions tried for k2 in gate_on: both ends, next to an end, the middle
GateKnobInputs == {0, 1, 50, 99}

\* europi: all six outputs are off when the script starts
cvs_off == [i \in 1 .. NumOutputs |-> FALSE]

\* EuroPiCellularAutomata.__init__, lines 113-117
ca_host_init ==
    /\ ca_init(STATE_SIZE, DefaultRule, FALSE)
    /\ outputs = <<0, 1, 2, 3, 4, 5>>
    /\ saved_state = state
    /\ cvs = cvs_off
    /\ gate \in {"low", "high"}
    /\ host_op = "init" /\ pre_state = <<>> /\ n_rising = 0 /\ n_updates = 0

\* the b1 handler reset, lines 119-123
ca_host_reset ==
    /\ ca_reset_state
    /\ saved_state' = state'
    /\ host_op' = "reset"
    /\ UNCHANGED <<outputs, cvs, gate, pre_state, n_rising, n_updates>>

\* the b2 handler randomize, lines 125-129, randomize_state drawing new_state
ca_host_randomize(new_state) ==
    /\ state' = new_state
    /\ ca_op' = "randomize_state" /\ ca_arg' = 0
    /\ UNCHANGED <<length, rule, rule_set>>
    /\ saved_state' = state'
    /\ host_op' = "randomize"
    /\ UNCHANGED <<outputs, cvs, gate, pre_state, n_rising, n_updates>>

\* gate_on, line 139: the cell output i is compared with "1" (mutant: the cell
\* is read after update_state)
gate_on_cell_mut(loaded, updated, outs, i) == PyIdx(updated, PyIdx(outs, i))

\* gate_on, line 139: the cell output i is compared with "1"; loaded is
\* self._ca.state at that line, updated is what update_state makes of it
gate_on_cell(loaded, updated, outs, i) == PyIdx(loaded, PyIdx(outs, i))

\* the din handler gate_on, lines 131-141, on a rising edge; load is
\* ain.percent() > 0.3 and k is k2.read_position(steps=100)
ca_host_gate_on(load, k) ==
    LET loaded  == IF load THEN saved_state ELSE state
        outs    == combination(STATE_SIZE, NumOutputs, gate_on_m(k))
        updated == update_state_loop(0, loaded, loaded, length, rule_set)
    IN  /\ gate = "low" /\ gate' = "high"
        /\ outputs' = outs
        /\ cvs' = [i \in 1 .. NumOutputs |->
                     IF gate_on_cell(loaded, updated, outs, i - 1) = "1"
                     THEN TRUE ELSE cvs[i]]
        /\ state' = updated
        /\ ca_op' = "update_state" /\ ca_arg' = 0
        /\ UNCHANGED <<length, rule, rule_set, saved_state>>
        /\ pre_state' = loaded
        /\ n_rising' = n_rising + 1
        /\ n_updates' = n_updates + 1
        /\ host_op' = "gate_on"

\* the din handler gate_off, lines 143-147, on a falling edge
ca_host_gate_off ==
    /\ gate = "high" /\ gate' = "low"
    /\ cvs' = [i \in 1 .. NumOutputs |-> FALSE]
    /\ host_op' = "gate_off"
    /\ UNCHANGED <<ca_vars, outputs, saved_state, pre_state, n_rising,
                   n_updates>>

\* EuroPiCellularAutomata.main, lines 178-181: one pass of the while loop
ca_host_main(r) ==
    /\ ca_update_ruleset(r)
    /\ host_op' = "main"
    /\ UNCHANGED <<outputs, saved_state, cvs, gate, pre_state, n_rising,
                   n_updates>>

(***************************************************************************)
(* chaos_pendulum.py: ChaosPendulum.  Numbers are exact fractions          *)
(* <<numerator, denominator>> in lowest terms with a positive denominator. *)
(***************************************************************************)
Abs(v) == IF v < 0 THEN 0 - v ELSE v

RECURSIVE GCD(_, _)
GCD(p, q) == IF q = 0 THEN p ELSE GCD(q, p % q)

\* the fraction num/den, den # 0
Frac(num, den) ==
    LET g    == GCD(Abs(num), Abs(den))
        sign == IF den < 0 THEN 0 - 1 ELSE 1
    IN  <<(sign * num) \div g, (sign * den) \div g>>

RZero == Frac(0, 1)
ROne == Frac(1, 1)

RAdd(p, q) == Frac((p[1] * q[2]) + (q[1] * p[2]), p[2] * q[2])
RNeg(p) == Frac(0 - p[1], p[2])
RSub(p, q) == RAdd(p, RNeg(q))
RMul(p, q) == Frac(p[1] * q[1], p[2] * q[2])
RDiv(p, q) == Frac(p[1] * q[2], p[2] * q[1])

\* a * b * c * ... multiplied from the left, as Python does
RECURSIVE RProdFrom(_, _, _)
RProdFrom(acc, factors, j) ==
    IF j > Len(factors) THEN acc
    ELSE RProdFrom(RMul(acc, factors[j]), factors, j + 1)
RProd(factors) == RProdFrom(factors[1], factors, 2)

\* math.sin and math.cos: exact at 0, where sin is 0 and cos is 1; the
\* model evaluates them at no other argument
Sin(x) == CASE x = RZero -> RZero
Cos(x) == CASE x = RZero -> ROne

\* G = 9.8
G == Frac(98, 10)

\* ChaosPendulum.__init__: the default parameters
l1 == Frac(1, 1)
l2 == Frac(1, 1)
m1 == Frac(1, 1)
m2 == Frac(1, 1)
dt == Frac(1, 100)

\* derivs, lines 79 and 89: (self.m1+self.m2) * G * sin(angle) (mutant: cos
\* in the place of sin)
gravity_term_mut(angle) == RProd(<<RAdd(m1, m2), G, Cos(angle)>>)

\* derivs, lines 79, 87 and 89: (self.m1+self.m2) * G * sin(angle)
gravity_term(angle) == RProd(<<RAdd(m1, m2), G, Sin(angle)>>)

\* ChaosPendulum.derivs; st[1..4] is state[0..3]
derivs(st) ==
    LET delta == RSub(st[3], st[1])
        den1  == RSub(RMul(RAdd(m1, m2), l1),
                      RProd(<<m2, l1, Cos(delta), Cos(delta)>>))
        num1  == RSub(RAdd(RAdd(
                     RProd(<<m2, l1, st[2], st[2], Sin(delta), Cos(delta)>>),
                     RProd(<<m2, G, Sin(st[3]), Cos(delta)>>)),
                     RProd(<<m2, l2, st[4], st[4], Sin(delta)>>)),
                     gravity_term(st[1]))
        den2  == RMul(RDiv(l2, l1), den1)
        num2  == RSub(RSub(RAdd(
                     RProd(<<RNeg(m2), l2, st[4], st[4], Sin(delta), Cos(delta)>>),
                     RMul(gravity_term(st[1]), Cos(delta))),
                     RProd(<<RAdd(m1, m2), l1, st[2], st[2], Sin(delta)>>)),
                     gravity_term(st[3]))
    IN  <<st[2], RDiv(num1, den1), st[4], RDiv(num2, den2)>>

\* the state [0, 0, 0, 0]: both arms hanging straight down, at rest
RestState == <<RZero, RZero, RZero, RZero>>

\* ChaosPendulum.__init__ when randomize_state draws random() = 0.0 twice:
\* theta_1 = theta_2 = 2*pi*0.0
pend_init ==
    /\ pend_state = RestState
    /\ pend_op = "init" /\ pend_steps = 0

\* ChaosPendulum.set_state
pend_set_state(st) ==
    /\ pend_state' = st
    /\ pend_op' = "set_state" /\ pend_steps' = 0

\* ChaosPendulum.update_state, lines 96-98 and 105
pend_update_state ==
    LET y   == pend_state
        y_d == derivs(y)
    IN  /\ pend_state' = [j \in 1 .. 4 |-> RAdd(y[j], RMul(y_d[j], dt))]
        /\ pend_op' = "update_state"
        /\ pend_steps' = pend_steps + 1

(***************************************************************************)
(* chaos_pendulum.py: EuroPiChaosPendulum.  A pendulum state is written    *)
(* as the term <<d, e>>: what e update_state steps make of the state the   *)
(* d-th randomize_state call drew.                                         *)
(***************************************************************************)

\* update_state, lines 97-98: y_d = self.derivs(y); y = [a + b*dt ...],
\* from the y read at line 96
euler_step(y) == <<y[1], y[2] + 1>>

\* EuroPiChaosPendulum.__init__, lines 111-117: ChaosPendulum() draws a state,
\* _save_state copies it
pend_host_init ==
    /\ hp_state = <<0, 0>>
    /\ hp_saved = hp_state
    /\ main_pc = "main" /\ main_y = <<>>
    /\ hp_draws = 0 /\ hp_op = "init"
    /\ reset_fresh = FALSE

\* the b1 handler reset, lines 119-122
pend_host_reset ==
    /\ hp_state' = hp_saved
    /\ reset_fresh' = TRUE
    /\ hp_op' = "reset"
    /\ UNCHANGED <<hp_saved, main_pc, main_y, hp_draws>>

\* the din handler gate_reset, lines 130-132
pend_host_gate_reset ==
    /\ hp_state' = hp_saved
    /\ reset_fresh' = TRUE
    /\ hp_op' = "gate_reset"
    /\ UNCHANGED <<hp_saved, main_pc, main_y, hp_draws>>

\* the b2 handler randomize, lines 124-128
pend_host_randomize ==
    /\ hp_draws' = hp_draws + 1
    /\ hp_state' = <<hp_draws', 0>>
    /\ hp_saved' = hp_state'
    /\ hp_op' = "randomize"
    /\ UNCHANGED <<main_pc, main_y, reset_fresh>>

\* main, lines 180-182, up to update_state line 96: y = self.state
pend_main_begin ==
    /\ main_pc = "main" /\ main_pc' = "in_update"
    /\ main_y' = hp_state
    /\ reset_fresh' = FALSE
    /\ hp_op' = "update_begin"
    /\ UNCHANGED <<hp_state, hp_saved, hp_draws>>

\* update_state lines 97-106 and main lines 183-185: self.state = y
pend_main_end ==
    /\ main_pc = "in_update" /\ main_pc' = "main"
    /\ hp_state' = euler_step(main_y)
    /\ main_y' = <<>>
    /\ hp_op' = "update_end"
    /\ UNCHANGED <<hp_saved, hp_draws, reset_fresh>>

(***************************************************************************)
(* Idle values of the groups a specification does not use.                 *)
(***************************************************************************)
CaIdle ==
    /\ length = 0 /\ rule = 0 /\ rule_set = <<>> /\ state = <<>>
    /\ ca_op = "idle" /\ ca_arg = 0

CombIdle ==
    /\ c_n = 0 /\ c_k = 0 /\ c_m = 0 /\ c_a = 0 /\ c_b = 0 /\ c_x = 0
    /\ c_i = 0 /\ c_result = <<>> /\ c_pc = "idle"

ChIdle == ch_n = 0 /\ ch_k = 0 /\ ch_res = 0 /\ ch_pc = "idle"

LHostIdle == n_steps = 0

CHostIdle ==
    /\ outputs = <<>> /\ saved_state = <<>> /\ cvs = <<>> /\ gate = "idle"
    /\ host_op = "idle" /\ pre_state = <<>> /\ n_rising = 0 /\ n_updates = 0

PendIdle == pend_state = <<>> /\ pend_op = "idle" /\ pend_steps = 0

PHostIdle ==
    /\ hp_state = <<>> /\ hp_saved = <<>> /\ main_pc = "idle" /\ main_y = <<>>
    /\ hp_draws = 0 /\ hp_op = "idle" /\ reset_fresh = FALSE

ExtIdle == LHostIdle /\ CHostIdle /\ PendIdle /\ PHostIdle

(***************************************************************************)
(* SpecLFSR: one LFSR instance and the methods a caller may invoke on it.  *)
(***************************************************************************)
InitLFSR ==
    /\ \E n \in MinNBits .. MaxNBits :
         \E s \in Fitting(n) :
           \E rule_number \in RuleNumbers(n) : lfsr_init(s, rule_number, n)
    /\ GenIdle /\ CaIdle /\ CombIdle /\ ChIdle /\ ExtIdle

LfsrOthers == UNCHANGED <<gen_vars, ca_vars, comb_vars, ch_vars,
        ext_vars>>

LfsrSetState ==
    (\E v \in Fitting(n_bits) : lfsr_set_state(v)) /\ LfsrOthers

LfsrRandomizeState == lfsr_randomize_state /\ LfsrOthers

LfsrResetState == lfsr_reset_state /\ LfsrOthers

LfsrSetRule ==
    (\E rule_number \in RuleNumbers(n_bits) : lfsr_set_rule(rule_number))
    /\ LfsrOthers

LfsrUpdateState == lfsr_update_state /\ LfsrOthers

NextLFSR ==
    \/ LfsrSetState
    \/ LfsrRandomizeState
    \/ LfsrResetState
    \/ LfsrSetRule
    \/ LfsrUpdateState

SpecLFSR == InitLFSR /\ [][NextLFSR]_vars

(***************************************************************************)
(* Claims about the LFSR.                                                  *)
(***************************************************************************)

\* the set of active taps of a tap list
Taps(r) == {r[j] : j \in 1 .. Len(r)}

\* C2: after construction and after every set_rule call that returns without
\* error, every active tap of _rule lies in 1 .. n_bits-1 (a rule number that
\* configures a tap outside that range is rejected by set_rule).
C2_TapsInRange == \A t \in Taps(lfsr_rule) : 1 <= t /\ t <= n_bits - 1

\* C3: set_rule raises exactly for the rule numbers outside
\* [1, 2^(n_bits-1)]; when it raises, _rule and _state are as before the call;
\* update_state never raises.
C3_SetRuleErrorKeepsConfig ==
    [][ /\ (lfsr_op' = "set_rule" =>
              /\ lfsr_err' = (lfsr_arg' < 1 \/ lfsr_arg' > 2 ^ (n_bits - 1))
              /\ (lfsr_err' => lfsr_rule' = lfsr_rule /\ lfsr_state' = lfsr_state))
        /\ (lfsr_op' = "update_state" => ~lfsr_err') ]_vars

\* C3 witness: a set_rule call has raised on an instance whose taps are the
\* ones a previous accepted rule number configured.
C3_Witness ==
    /\ lfsr_op = "set_rule" /\ lfsr_err
    /\ lfsr_arg = 2 ^ (n_bits - 1) + 1
    /\ lfsr_rule = <<1>>

\* the value an MSB-first bit string denotes
RECURSIVE BitsValue(_)
BitsValue(bits) ==
    IF Len(bits) = 0 THEN 0
    ELSE 2 * BitsValue(SubSeq(bits, 1, Len(bits) - 1))
         + (IF bits[Len(bits)] = "1" THEN 1 ELSE 0)

\* C5: in every reachable state get_state_bits is a string of exactly n_bits
\* bits, most significant first, denoting the register value, which is below
\* 2^n_bits.
C5_StateBitsWidth ==
    LET bits == get_state_bits(lfsr_state, n_bits)
    IN  /\ Len(bits) = n_bits
        /\ \A j \in 1 .. Len(bits) : bits[j] \in {"0", "1"}
        /\ BitsValue(bits) = lfsr_state
        /\ lfsr_state < 2 ^ n_bits

InitGen ==
    /\ \E n \in MinNBits .. MaxNBits :
         \E s \in Fitting(n) :
           \E rule_number \in RuleNumbers(n) : lfsr_init(s, rule_number, n)
    /\ gen_create
    /\ upd_seq = <<lfsr_state>>
    /\ CaIdle /\ CombIdle /\ ChIdle /\ ExtIdle

GenOthers == UNCHANGED <<ca_vars, comb_vars, ch_vars,
        ext_vars>>

GenFirst ==
    /\ gen_first(ctor_state, lfsr_rule, n_bits)
    /\ UNCHANGED <<lfsr_vars, upd_seq>>
    /\ GenOthers

GenNext ==
    /\ Len(gen_seq) < MaxSteps + 1
    /\ gen_next(lfsr_rule, n_bits)
    /\ UNCHANGED <<lfsr_vars, upd_seq>>
    /\ GenOthers

GenLfsrUpdate ==
    /\ Len(upd_seq) < MaxSteps + 1
    /\ lfsr_update_state
    /\ upd_seq' = Append(upd_seq, lfsr_state')
    /\ UNCHANGED <<gen_pc, gen_lfsr, gen_seq>>
    /\ GenOthers

NextGen == GenFirst \/ GenNext \/ GenLfsrUpdate

SpecGen == InitGen /\ [][NextGen]_vars

\* bit t of s
BitOf(s, t) == (s \div (2 ^ t)) % 2

\* the number of taps among r[j..] whose bit of s is set
RECURSIVE TapBits(_, _, _)
TapBits(j, s, r) ==
    IF j > Len(r) THEN 0 ELSE BitOf(s, r[j]) + TapBits(j + 1, s, r)

\* the XOR of bit 0 of s with bit t of s for every active tap t
Feedback(s, r) == (BitOf(s, 0) + TapBits(1, s, r)) % 2

\* (s >> 1) | (fb << (n-1)) for an n-bit s: the two operands share no bit
Shifted(s, r, n) == (s \div 2) + (Feedback(s, r) * (2 ^ (n - 1)))

\* C10, first half: every update_state took the register from s to
\* (s >> 1) | (fb << (n_bits-1)).
C10_UpdateMatchesFormula ==
    \A j \in 1 .. (Len(upd_seq) - 1) :
        upd_seq[j + 1] = Shifted(upd_seq[j], lfsr_rule, n_bits)

\* C10, second half: the generator started from the same state and tap list
\* yields, and its values are the register's states in order.
C10_GeneratorAgrees ==
    /\ gen_pc # "raised"
    /\ \A j \in 1 .. Len(gen_seq) :
           j <= Len(upd_seq) => gen_seq[j] = upd_seq[j]

\* C10: update_state maps s to (s >> 1) | (fb << (n_bits-1)) for every
\* n_bits-bit state and every accepted tap set, and rule_lfsr started from
\* the same state and tap list yields the same sequence of states.
C10_UpdateAndGenerator == C10_UpdateMatchesFormula /\ C10_GeneratorAgrees

\* what remains of C10's second half on the tap lists rule_lfsr accepts
C10_GeneratorAgreesIfAccepted ==
    gen_pc # "raised" =>
        \A j \in 1 .. Len(gen_seq) :
            j <= Len(upd_seq) => gen_seq[j] = upd_seq[j]

(***************************************************************************)
(* SpecCA: one automaton and the methods a caller may invoke on it.        *)
(***************************************************************************)
InitCA ==
    /\ \E len \in MinLength .. MaxLength :
         \E r \in RuleInputs :
           \E randomize \in BOOLEAN : ca_init(len, r, randomize)
    /\ LfsrIdle /\ GenIdle /\ CombIdle /\ ChIdle /\ ExtIdle

CaOthers == UNCHANGED <<lfsr_vars, gen_vars, comb_vars, ch_vars,
        ext_vars>>

CaSetState == (\E v \in SetStateValues : ca_set_state(v)) /\ CaOthers

CaRandomizeState == ca_randomize_state /\ CaOthers

CaResetState == ca_reset_state /\ CaOthers

CaUpdateRuleset ==
    (\E r \in RuleInputs : ca_update_ruleset(r)) /\ CaOthers

CaUpdateState == ca_update_state /\ CaOthers

NextCA ==
    \/ CaSetState
    \/ CaRandomizeState
    \/ CaResetState
    \/ CaUpdateRuleset
    \/ CaUpdateState

SpecCA == InitCA /\ [][NextCA]_vars

\* the value of a cell as a number
CellBit(c) == IF c = "1" THEN 1 ELSE 0

\* the synchronous successor of a ring: every cell from the old neighbours
SyncUpdate(old, len, rs) ==
    [i \in 1 .. len |->
        rs[ (4 * CellBit(old[((i - 2) % len) + 1])) + (2 * CellBit(old[i]))
            + CellBit(old[(i % len) + 1]) + 1 ]]

\* C1: update_state is a synchronous update: each cell i of the new state is
\* rule_set[4*old[i-1 mod length] + 2*old[i] + old[i+1 mod length]], computed
\* from the state as it was before the call.
C1_SynchronousUpdate ==
    [][ (ca_op' = "update_state" /\ Len(state) = length)
            => state' = SyncUpdate(state, length, rule_set) ]_vars

\* the binary expansion of v, most significant bit first, zero-padded or
\* truncated to len bits
Expansion(v, len) == [j \in 1 .. len |-> Digit((v \div (2 ^ (len - j))) % 2)]

\* C4: the state always has exactly length cells, each "0" or "1", and
\* set_state(value) leaves the value's binary expansion, most significant bit
\* first, zero-padded or truncated to length bits.
C4_StateHasLengthCells ==
    /\ Len(state) = length
    /\ \A j \in 1 .. Len(state) : state[j] \in {"0", "1"}
    /\ (ca_op = "set_state" => state = Expansion(ca_arg, length))

(***************************************************************************)
(* SpecRuleSet: get_rule_set applied to every rule number, at construction *)
(* and by update_ruleset, on an automaton of MinLength cells.              *)
(***************************************************************************)
InitRuleSet ==
    /\ \E r \in AllRules : ca_init(MinLength, r, FALSE)
    /\ LfsrIdle /\ GenIdle /\ CombIdle /\ ChIdle /\ ExtIdle

RsUpdateRuleset == (\E r \in AllRules : ca_update_ruleset(r)) /\ CaOthers

NextRuleSet == RsUpdateRuleset

SpecRuleSet == InitRuleSet /\ [][NextRuleSet]_vars

\* the number whose bit n is entry n of a rule table
RECURSIVE Encode(_, _)
Encode(rs, n) ==
    IF n >= Len(rs) THEN 0
    ELSE (CellBit(rs[n + 1]) * (2 ^ n)) + Encode(rs, n + 1)

\* C9: for every rule number in 0..255 the rule table has exactly 8 entries,
\* entry n is bit n of the rule number (bit 0 least significant), and
\* re-encoding the table as the sum of entry[n]*2^n gives the rule number.
C9_RuleSetIsBitsOfRule ==
    /\ Len(rule_set) = 8
    /\ \A n \in 0 .. 7 : rule_set[n + 1] = Digit((rule \div (2 ^ n)) % 2)
    /\ Encode(rule_set, 0) = rule

\* C9 witness: update_ruleset(110) has built the table of rule 110.
C9_Witness ==
    /\ ca_op = "update_ruleset"
    /\ rule = 110
    /\ rule_set = <<"0", "1", "1", "1", "0", "1", "1", "0">>

(***************************************************************************)
(* SpecComb: combination(n, k, m) for 0 <= k <= n <= MaxCombN and every m  *)
(* that satisfies the precondition 0 <= m < choose(n, k).                  *)
(***************************************************************************)
InitComb ==
    /\ \E n \in 0 .. MaxCombN :
         \E k \in 0 .. n :
           \E m \in 0 .. (choose(n, k) - 1) : comb_entry(n, k, m)
    /\ LfsrIdle /\ GenIdle /\ CaIdle /\ ChIdle /\ ExtIdle

CombOthers == UNCHANGED <<lfsr_vars, gen_vars, ca_vars, ch_vars,
        ext_vars>>

CombFor == comb_for /\ CombOthers

CombWhile == comb_while /\ CombOthers

CombAppend == comb_append /\ CombOthers

CombReturn == comb_return /\ CombOthers

NextComb == CombFor \/ CombWhile \/ CombAppend \/ CombReturn

SpecComb == InitComb /\ [][NextComb]_vars

\* the k-element subsets of {0..n-1}, each as a strictly increasing sequence
IncreasingSeqs(n, k) ==
    {q \in [1 .. k -> 0 .. (n - 1)] : \A j \in 1 .. (k - 1) : q[j] < q[j + 1]}

\* p comes before q in lexicographic order
LexLess(p, q) ==
    \E j \in 1 .. Len(p) :
        /\ p[j] < q[j]
        /\ \A h \in 1 .. (j - 1) : p[h] = q[h]

\* the 0-based position of q in the lexicographically ordered list
LexRank(q, n, k) == Cardinality({p \in IncreasingSeqs(n, k) : LexLess(p, q)})

\* the call as one operator and the call step by step return the same list
CombinationAgrees ==
    c_pc = "done" => c_result = combination(c_n, c_k, c_m)

\* C7: for 0 <= k <= n and 0 <= m < choose(n,k), combination(n,k,m) is the
\* m-th element (0-indexed) of the lexicographically ordered list of the
\* k-element subsets of {0..n-1} written as strictly increasing sequences; so
\* m = 0 gives [0..k-1] and distinct m give distinct subsets.
C7_CombinationIsLexNth ==
    c_pc = "done" =>
        /\ c_result \in IncreasingSeqs(c_n, c_k)
        /\ LexRank(c_result, c_n, c_k) = c_m
        /\ (c_m = 0 => c_result = [j \in 1 .. c_k |-> j - 1])

\* C7 witness: combination(5, 2, 9) has returned the last 2-subset, [3, 4].
C7_Witness ==
    /\ c_pc = "done"
    /\ c_n = 5 /\ c_k = 2 /\ c_m = 9
    /\ c_result = <<3, 4>>

(***************************************************************************)
(* SpecChoose: choose(n, k) for 0 <= n, k <= MaxChooseN.                   *)
(***************************************************************************)
InitChoose ==
    /\ \E n \in 0 .. MaxChooseN : \E k \in 0 .. MaxChooseN : choose_entry(n, k)
    /\ LfsrIdle /\ GenIdle /\ CaIdle /\ CombIdle /\ ExtIdle

ChooseCall ==
    choose_call /\ UNCHANGED <<lfsr_vars, gen_vars, ca_vars, comb_vars,
        ext_vars>>

NextChoose == ChooseCall

SpecChoose == InitChoose /\ [][NextChoose]_vars

\* the binomial coefficient: the number of k-element subsets of an n-set
Binomial(n, k) == Cardinality({S \in SUBSET (1 .. n) : Cardinality(S) = k})

\* C8: choose(n,k) is 0 whenever n < k and otherwise the binomial
\* coefficient n!/(k!(n-k)!).
C8_ChooseIsBinomial ==
    ch_pc = "done" =>
        /\ (ch_n < ch_k => ch_res = 0)
        /\ (ch_n >= ch_k => ch_res = Binomial(ch_n, ch_k))
        /\ (ch_n >= ch_k =>
                ch_res * Factorial(ch_k) * Factorial(ch_n - ch_k) = Factorial(ch_n))

\* C8 witness: choose(5, 2) has returned 10.
C8_Witness == ch_pc = "done" /\ ch_n = 5 /\ ch_k = 2 /\ ch_res = 10

\* every cell of st is c
AllCells(st, c) == \A j \in 1 .. Len(st) : st[j] = c

\* C11: one update_state from any state yields the all-zero state when the
\* rule is 0 and the all-one state when the rule is 255.
C11_ConstantRules ==
    [][ ca_op' = "update_state" =>
            /\ (rule = 0 => AllCells(state', "0"))
            /\ (rule = 255 => AllCells(state', "1")) ]_vars

\* what remains of C11 on the states that have exactly length cells
C11_ConstantRulesOnLengthCells ==
    [][ (ca_op' = "update_state" /\ Len(state) = length) =>
            /\ (rule = 0 => AllCells(state', "0"))
            /\ (rule = 255 => AllCells(state', "1")) ]_vars

(***************************************************************************)
(* SpecCA16: the automaton the host constructs, ElementaryCellularAutomata *)
(* with its defaults (length STATE_SIZE, rule 110, all-zero state), under  *)
(* set_state, reset_state and update_state.                                *)
(***************************************************************************)

InitCA16 ==
    /\ ca_init(STATE_SIZE, DefaultRule, FALSE)
    /\ LfsrIdle /\ GenIdle /\ CombIdle /\ ChIdle /\ ExtIdle

\* arguments tried for set_state on the 16-cell automaton
SetStateValues16 == SetStateValues \cup {3, 6, 255, 4660, 43690}

Ca16SetState == (\E v \in SetStateValues16 : ca_set_state(v)) /\ CaOthers

NextCA16 ==
    \/ Ca16SetState
    \/ CaResetState
    \/ CaUpdateState

SpecCA16 == InitCA16 /\ [][NextCA16]_vars

\* C13: with length 16 and rule 110 the all-zero state is a fixed point of
\* update_state, so an automaton started all-zero stays all-zero after any
\* number of update_state calls.
C13_ZeroIsFixedPoint ==
    [][ (ca_op' = "update_state" /\ state = Zeros(STATE_SIZE))
            => state' = Zeros(STATE_SIZE) ]_vars

\* C13 witness: update_state has run on the 16-cell rule-110 automaton and
\* left it all-zero.
C13_Witness ==
    /\ length = 16 /\ rule = 110
    /\ ca_op = "update_state"
    /\ state = Zeros(16)

(***************************************************************************)
(* SpecPeriod: LFSR(state=1, rule_number=1, n_bits=8) under repeated       *)
(* update_state, the states recorded in upd_seq.                           *)
(***************************************************************************)
InitPeriod ==
    /\ lfsr_init(1, 1, N_BITS)
    /\ gen_pc = "idle" /\ gen_lfsr = 0 /\ gen_seq = <<>>
    /\ upd_seq = <<lfsr_state>>
    /\ CaIdle /\ CombIdle /\ ChIdle /\ ExtIdle

PeriodUpdate ==
    /\ Len(upd_seq) < MaxPeriodSteps + 1
    /\ lfsr_update_state
    /\ upd_seq' = Append(upd_seq, lfsr_state')
    /\ UNCHANGED <<gen_pc, gen_lfsr, gen_seq>>
    /\ GenOthers

NextPeriod == PeriodUpdate

SpecPeriod == InitPeriod /\ [][NextPeriod]_vars

\* upd_seq[j] is the register after j-1 steps: state 1 first recurs after
\* exactly p steps and no state is visited twice before that
FirstRecursAfter(p) ==
    /\ \A j \in 2 .. Len(upd_seq) : j <= p => upd_seq[j] # 1
    /\ (Len(upd_seq) >= p + 1 => upd_seq[p + 1] = 1)
    /\ \A i \in 1 .. Len(upd_seq) : \A j \in 1 .. Len(upd_seq) :
           (i < j /\ j <= p) => upd_seq[i] # upd_seq[j]

\* C12: the 8-bit LFSR started at 1 with rule number 1 is maximal-length:
\* state 1 first recurs after exactly 2^8 - 1 = 255 steps and no state is
\* visited twice before that.
C12_MaximalPeriod == FirstRecursAfter(255)

\* C12 as amended: state 1 first recurs after exactly 63 steps and no state
\* is visited twice before that.
C12_PeriodIs63 == FirstRecursAfter(63)

\* C12 witness: 63 update_state calls have run and the register is 1 again.
C12_Witness ==
    /\ n_bits = 8 /\ lfsr_rule = <<1>>
    /\ Len(upd_seq) = 64
    /\ upd_seq[1] = 1 /\ upd_seq[64] = 1 /\ lfsr_state = 1

\* C20: for every accepted tap set update_state never turns a nonzero
\* register into the all-zero register, and the all-zero register is a fixed
\* point.
C20_NonzeroStaysNonzero ==
    [][ lfsr_op' = "update_state" =>
            /\ (lfsr_state # 0 => lfsr_state' # 0)
            /\ (lfsr_state = 0 => lfsr_state' = 0) ]_vars

\* C20 witness: update_state has run on the register 1 (set by set_state),
\* whose only set bit is shifted out, and left the feedback bit at the top.
C20_Witness ==
    /\ lfsr_op = "update_state"
    /\ last_set = 1
    /\ lfsr_state = 2 ^ (n_bits - 1)

(***************************************************************************)
(* SpecCombAny: combination(n, k, m) for 0 <= k <= n <= MaxCombN and m      *)
(* outside the precondition, up to MaxOut below 0 or past choose(n,k)-1.   *)
(* The while loop is followed while a > -MaxNegA.                          *)
(***************************************************************************)
OutOfRange(n, k) ==
    ((0 - MaxOut) .. (0 - 1)) \cup (choose(n, k) .. (choose(n, k) + MaxOut - 1))

InitCombAny ==
    /\ \E n \in 0 .. MaxCombN :
         \E k \in 0 .. n :
           \E m \in OutOfRange(n, k) : comb_entry(n, k, m)
    /\ LfsrIdle /\ GenIdle /\ CaIdle /\ ChIdle /\ ExtIdle

CombAnyWhile == c_a > 0 - MaxNegA /\ comb_while /\ CombOthers

NextCombAny == CombFor \/ CombAnyWhile \/ CombAppend \/ CombReturn

SpecCombAny == InitCombAny /\ [][NextCombAny]_vars

\* the lower of two integers
Lower(p, q) == IF p < q THEN p ELSE q

\* the running while loop still has an exit: its guard is false at some value
\* a' <= a.  choose(a', b) is 0 for every a' < b, so a' = -1 stands for all
\* the negative values.
WhileCanExit ==
    \E a1 \in Lower(0 - 1, c_a) .. c_a : ~(choose(a1, c_b) > c_x)

\* C15: called with an out-of-range m, combination still terminates and
\* returns a sequence of k indices; it never loops forever.
C15_OutOfRangeTerminates ==
    /\ (c_pc = "done" => Len(c_result) = c_k)
    /\ (c_pc = "while" => WhileCanExit)

\* C15 as amended: for m < 0 combination returns [0, ..., k-1], and a stays
\* at or above 0 on the way; for m >= choose(n,k) it returns (the empty list)
\* only when k = 0, and for k >= 1 it never returns: it stays in the first
\* while loop, whose guard choose(a, b) > x holds at every turn.
C15_OutOfRangeBehaviour ==
    /\ (c_m < 0 =>
          /\ c_a >= 0
          /\ (c_pc = "while" => WhileCanExit)
          /\ (c_pc = "done" \/ ENABLED NextCombAny)
          /\ (c_pc = "done" => c_result = [j \in 1 .. c_k |-> j - 1]))
    /\ ((c_m >= choose(c_n, c_k) /\ c_k = 0) =>
          (c_pc = "done" => c_result = <<>>))
    /\ ((c_m >= choose(c_n, c_k) /\ c_k >= 1) =>
          /\ c_pc # "done"
          /\ c_i = 0 /\ c_result = <<>>
          /\ (c_pc = "while" => (choose(c_a, c_b) > c_x /\ ~WhileCanExit)))

\* C15 witness: combination(5, 2, 10) is in its first while loop with a
\* already negative.
C15_Witness ==
    /\ c_n = 5 /\ c_k = 2 /\ c_m = 10
    /\ c_pc = "while" /\ c_i = 0
    /\ c_a < 0

(***************************************************************************)
(* SpecCombHost: the calls combination(STATE_SIZE, 6, 8*k) the gate_on     *)
(* handler of the automaton host makes, for every knob position k.         *)
(***************************************************************************)
InitCombHost ==
    /\ \E k \in KnobPositions(KnobSteps) :
           comb_entry(STATE_SIZE, NumOutputs, gate_on_m(k))
    /\ LfsrIdle /\ GenIdle /\ CaIdle /\ ChIdle /\ ExtIdle

NextCombHost == CombFor \/ CombWhile \/ CombAppend \/ CombReturn

SpecCombHost == InitCombHost /\ [][NextCombHost]_vars

\* C18: every call combination(16, 6, 8*k) made by gate_on satisfies
\* 0 <= m < choose(16, 6), and what it returns is a list of 6 distinct
\* indices in 0..15, so the lookup state[outputs[i]] stays in bounds.
C18_HostCombinationInRange ==
    /\ c_n = 16 /\ c_k = 6
    /\ 0 <= c_m /\ c_m < choose(16, 6)
    /\ (c_pc = "done" =>
          /\ Len(c_result) = 6
          /\ \A j \in 1 .. 6 : 0 <= c_result[j] /\ c_result[j] <= 15
          /\ \A i \in 1 .. 6 : \A j \in 1 .. 6 :
                 i # j => c_result[i] # c_result[j])

\* C18 witness: the call for the last knob position, combination(16, 6, 792),
\* has returned [0, 1, 6, 7, 8, 10].
C18_Witness ==
    /\ c_pc = "done"
    /\ c_m = 8 * 99
    /\ c_result = <<0, 1, 6, 7, 8, 10>>

(***************************************************************************)
(* SpecLfsrHost: EuroPiLFSR after construction, running its main loop, for  *)
(* every position of the two knobs.  The main loop ends at a ValueError.   *)
(***************************************************************************)
InitLfsrHost ==
    /\ lfsr_host_init
    /\ GenIdle /\ CaIdle /\ CombIdle /\ ChIdle
    /\ CHostIdle /\ PendIdle /\ PHostIdle

LfsrHostMain ==
    /\ ~lfsr_err
    /\ \E k1_pos \in KnobPositions(main_rule_steps(n_bits)) :
         \E k2_pos \in KnobPositions(n_bits) : lfsr_host_main(k1_pos, k2_pos)
    /\ UNCHANGED <<gen_vars, ca_vars, comb_vars, ch_vars, chost_vars,
                   pend_vars, phost_vars>>

NextLfsrHost == LfsrHostMain

SpecLfsrHost == InitLfsrHost /\ [][NextLfsrHost]_vars

\* C19: in the LFSR host the default rule 110 and every rule number the main
\* loop passes to set_rule (knob position in 0 .. 2^(n_bits-1)-2, plus 1) is
\* accepted without error and decodes to taps in 1 .. n_bits-1, so the main
\* loop is never ended by a set_rule error.
C19_HostRulesAccepted ==
    /\ ~lfsr_err
    /\ lfsr_op = "set_rule" =>
          (1 <= lfsr_arg /\ lfsr_arg <= (2 ^ (n_bits - 1)) - 1)
    /\ Taps(lfsr_rule) # {}
    /\ Taps(lfsr_rule) \subseteq 1 .. (n_bits - 1)
    /\ ENABLED NextLfsrHost

\* C19 witness: the main loop has passed the largest rule number, 127, to
\* set_rule, which configured all seven taps.
C19_Witness ==
    /\ lfsr_op = "set_rule" /\ lfsr_arg = 127
    /\ Taps(lfsr_rule) = 1 .. 7
    /\ n_steps = 256

(***************************************************************************)
(* SpecCaHost: EuroPiCellularAutomata after construction: the two button   *)
(* handlers, the two gate handlers (edges alternate) and the main loop,    *)
(* each running to its end before the next starts.  Up to MaxRising rising *)
(* edges are followed.                                                     *)
(***************************************************************************)
InitCaHost ==
    /\ ca_host_init
    /\ LfsrIdle /\ GenIdle /\ CombIdle /\ ChIdle
    /\ LHostIdle /\ PendIdle /\ PHostIdle

CaHostOthers ==
    UNCHANGED <<lfsr_vars, gen_vars, comb_vars, ch_vars, lhost_vars,
                pend_vars, phost_vars>>

CaHostReset == ca_host_reset /\ CaHostOthers

CaHostRandomize ==
    (\E new_state \in RandomDraws : ca_host_randomize(new_state))
    /\ CaHostOthers

CaHostGateOn ==
    /\ n_rising < MaxRising
    /\ \E load \in BOOLEAN : \E k \in GateKnobInputs : ca_host_gate_on(load, k)
    /\ CaHostOthers

CaHostGateOff == ca_host_gate_off /\ CaHostOthers

CaHostMain == (\E r \in HostRuleInputs : ca_host_main(r)) /\ CaHostOthers

NextCaHost ==
    \/ CaHostReset
    \/ CaHostRandomize
    \/ CaHostGateOn
    \/ CaHostGateOff
    \/ CaHostMain

SpecCaHost == InitCaHost /\ [][NextCaHost]_vars

\* C17: in the cellular-automaton host, with alternating gate edges, all six
\* outputs are off after every falling edge, and after a rising edge output
\* i is high if and only if cell outputs[i] was "1" in the state handed to
\* that edge's update_state; the automaton advances once per rising edge.
C17_OutputsFollowGate ==
    /\ gate = "low" => \A i \in 1 .. NumOutputs : ~cvs[i]
    /\ (gate = "high" /\ n_rising > 0) =>
          \A i \in 1 .. NumOutputs :
              cvs[i] <=> (PyIdx(pre_state, outputs[i]) = "1")
    /\ host_op = "gate_on" =>
          state = update_state_loop(0, pre_state, pre_state, length, rule_set)
    /\ n_updates = n_rising

\* C17 witness: the second rising edge has been handled after a falling
\* edge, and it drove some outputs high and left others off.
C17_Witness ==
    /\ host_op = "gate_on" /\ n_rising = 2
    /\ \E i \in 1 .. NumOutputs : cvs[i]
    /\ \E i \in 1 .. NumOutputs : ~cvs[i]
    /\ pre_state # state

(***************************************************************************)
(* SpecPendHost: EuroPiChaosPendulum after construction.  The main loop is *)
(* a polling context; the three handlers are interrupts, which run to      *)
(* their end wherever the main loop stands, also inside update_state.      *)
(***************************************************************************)
InitPendHost ==
    /\ pend_host_init
    /\ LfsrIdle /\ GenIdle /\ CaIdle /\ CombIdle /\ ChIdle
    /\ LHostIdle /\ CHostIdle /\ PendIdle

PendHostOthers ==
    UNCHANGED <<lfsr_vars, gen_vars, ca_vars, comb_vars, ch_vars, lhost_vars,
                chost_vars, pend_vars>>

PendHostReset == pend_host_reset /\ PendHostOthers

PendHostGateReset == pend_host_gate_reset /\ PendHostOthers

PendHostRandomize ==
    hp_draws < MaxDraws /\ pend_host_randomize /\ PendHostOthers

PendMainBegin ==
    hp_state[2] < MaxEuler /\ pend_main_begin /\ PendHostOthers

PendMainEnd == pend_main_end /\ PendHostOthers

NextPendHost ==
    \/ PendHostReset
    \/ PendHostGateReset
    \/ PendHostRandomize
    \/ PendMainBegin
    \/ PendMainEnd

SpecPendHost == InitPendHost /\ [][NextPendHost]_vars

\* C16: in the pendulum host a reset is never lost: once the b1 reset
\* handler or the gate_reset handler has run, the engine state equals
\* saved_state until the next update_state begins, also when the handler
\* interrupted an update_state of the main loop that was in progress.
C16_ResetNeverLost == reset_fresh => hp_state = hp_saved

\* C16, the part that holds: right after a reset handler the engine state
\* is saved_state, and it stays so while the main loop is not inside an
\* update_state that began before the reset.
C16_ResetHoldsUntilWrite ==
    [][ /\ (reset_fresh' /\ ~reset_fresh) => hp_state' = hp_saved'
        /\ (reset_fresh /\ hp_state = hp_saved /\ main_pc = "main")
              => (reset_fresh' => hp_state' = hp_saved') ]_vars

\* C16 case: a reset handler ran while the main loop was inside
\* update_state, and that update_state has since written its result.
C16_LostReset ==
    /\ reset_fresh /\ hp_op = "update_end"
    /\ hp_state # hp_saved

(***************************************************************************)
(* SpecPendRest: a ChaosPendulum with the default parameters whose state   *)
(* is [0, 0, 0, 0], under set_state([0, 0, 0, 0]) and up to MaxPendSteps   *)
(* update_state calls in a row.                                            *)
(***************************************************************************)
InitPendRest ==
    /\ pend_init
    /\ LfsrIdle /\ GenIdle /\ CaIdle /\ CombIdle /\ ChIdle
    /\ LHostIdle /\ CHostIdle /\ PHostIdle

PendOthers ==
    UNCHANGED <<lfsr_vars, gen_vars, ca_vars, comb_vars, ch_vars, lhost_vars,
                chost_vars, phost_vars>>

PendSetState == pend_set_state(RestState) /\ PendOthers

PendUpdateState ==
    pend_steps < MaxPendSteps /\ pend_update_state /\ PendOthers

NextPendRest == PendSetState \/ PendUpdateState

SpecPendRest == InitPendRest /\ [][NextPendRest]_vars

\* C14: a ChaosPendulum with m1 = m2 = l1 = l2 = 1 and dt = 0.01 whose
\* state is set to [0, 0, 0, 0] has an exactly zero derivative vector and
\* is still at [0, 0, 0, 0] after every update_state call, for 1000 calls.
C14_RestStateIsFixed ==
    /\ pend_state = RestState
    /\ derivs(pend_state) = RestState

\* C14 witness: update_state has run 1000 times since set_state([0,0,0,0]).
C14_Witness ==
    /\ pend_op = "update_state"
    /\ pend_steps = 1000
    /\ pend_state = RestState

====
